---- MODULE Spec2Model ----
(***************************************************************************)
(* A circular genome with transposable elements (src/src/genome.py).       *)
(*                                                                         *)
(* Two implementations of the Genome interface are modelled side by side:  *)
(* ListGenome (a Python list of markers) and LinkedListGenome (a circular  *)
(* doubly-linked chain of Link objects around a dummy head).  A driver     *)
(* constructs the genome(s) of size n and then calls insert_te, copy_te    *)
(* and disable_te; with impl = "both" every call goes to both objects.     *)
(***************************************************************************)
EXTENDS Integers, Sequences, FiniteSets

\* Bounds of the exploration.
MaxN == 1
MaxTELen == 2
MaxOffset == 2
MaxCalls == 3
MaxBeyond == 1

VARIABLES
    impl,      \* which implementation(s) the driver constructed
    lst,       \* the ListGenome object: genome, TEs, TE_counter
    lnk,       \* the LinkedListGenome object: the Link heap, TEs, TE_counter
    last,      \* the last call: operation, arguments, return values
    pre,       \* the two objects as they were before the last call
    returned,  \* the ids returned so far by each object, in call order
    calls,     \* number of calls made so far
    size       \* the n the genome(s) were constructed with

vars == <<impl, lst, lnk, last, pre, returned, calls, size>>

----------------------------------------------------------------------------
\* Python helpers.

\* ['c'] * k   (empty for k <= 0)
Repeat(c, k) == [i \in 1..k |-> c]

\* The bound of a slice index i on a list of length n (negative counts from the end).
PyClamp(i, n) ==
    IF i < 0 THEN (IF i + n < 0 THEN 0 ELSE i + n)
    ELSE (IF i > n THEN n ELSE i)

\* s[lo:hi]
PySlice(s, lo, hi) ==
    SubSeq(s, PyClamp(lo, Len(s)) + 1, PyClamp(hi, Len(s)))

\* s[lo:]
PySliceFrom(s, lo) == SubSeq(s, PyClamp(lo, Len(s)) + 1, Len(s))

\* s[lo:hi] = t   (slice assignment: the slice is replaced by t, whatever its length)
PySliceAssign(s, lo, hi, t) ==
    LET a == PyClamp(lo, Len(s))
        b0 == PyClamp(hi, Len(s))
        b == IF b0 < a THEN a ELSE b0
    IN  SubSeq(s, 1, a) \o t \o SubSeq(s, b + 1, Len(s))

\* Return values: an int, None, or a raised exception.
RetInt(v) == [kind |-> "int", val |-> v]
RetNone == [kind |-> "None", val |-> 0]
RetRaise(e) == [kind |-> e, val |-> 0]

----------------------------------------------------------------------------
\* The TE registry: self.TEs, a dict id -> [start, length, status], whose keys
\* are 1..TE_counter in insertion order (a sequence here).

TERecord(pos, length, status) == [start |-> pos, length |-> length, status |-> status]

\* [te for te in self.TEs if self.TEs[te][2] == 'A']
ActiveList(TEs) == SelectSeq([i \in 1..Len(TEs) |-> i], LAMBDA te : TEs[te].status = "A")

\* Collides with the left boundary taken in (start <= pos): a mutant.
CollidesInclusive(rec, pos) ==
    /\ rec.status = "A"
    /\ rec.start <= pos
    /\ pos < rec.start + rec.length

\* The condition of the scan: an active TE with start < pos and pos < end.
Collides(rec, pos) ==
    /\ rec.status = "A"
    /\ rec.start < pos
    /\ pos < rec.start + rec.length

\* for te in self.TEs: ... disable_te(te); break  -- the first colliding id, 0 if none.
FirstCollision(TEs, pos) ==
    LET hits == {te \in 1..Len(TEs) : Collides(TEs[te], pos)}
    IN  IF hits = {} THEN 0
        ELSE CHOOSE te \in hits : \A o \in hits : te <= o

\* ShiftsAt with a TE starting exactly at pos left in place (pos < start): a mutant.
ShiftsAtStrict(start, pos) == pos < start

\* The condition under which a record's start moves: pos <= start.
ShiftsAt(start, pos) == pos <= start

\* ShiftStarts moving the starts by one cell instead of length: a mutant.
ShiftStartsByOne(TEs, pos, length) ==
    [te \in 1..Len(TEs) |->
        IF ShiftsAt(TEs[te].start, pos)
        THEN [TEs[te] EXCEPT !.start = @ + 1]
        ELSE TEs[te]]

\* for te in self.TEs: if pos <= start: self.TEs[te][0] += length
ShiftStarts(TEs, pos, length) ==
    [te \in 1..Len(TEs) |->
        IF ShiftsAt(TEs[te].start, pos)
        THEN [TEs[te] EXCEPT !.start = @ + length]
        ELSE TEs[te]]

\* self.TEs[self.TE_counter] = [pos, length, 'A']
Register(TEs, pos, length) == Append(TEs, TERecord(pos, length, "A"))

----------------------------------------------------------------------------
\* ListGenome

ListInit(n) == [genome |-> Repeat("-", n), TEs |-> <<>>, TE_counter |-> 0]

ListLen(self) == Len(self.genome)

ListStr(self) == self.genome

ListActiveTes(self) == ActiveList(self.TEs)

\* ListDisableTe flipping the status instead of setting it: a mutant.
ListDisableTeToggles(self, te) ==
    LET pos == self.TEs[te].start
        length == self.TEs[te].length
    IN  [self EXCEPT !.TEs[te].status = IF @ = "A" THEN "D" ELSE "A",
                     !.genome = PySliceAssign(@, pos, pos + length, Repeat("x", length))]

ListDisableTe(self, te) ==
    LET pos == self.TEs[te].start
        length == self.TEs[te].length
    IN  [self EXCEPT !.TEs[te].status = "D",
                     !.genome = PySliceAssign(@, pos, pos + length, Repeat("x", length))]

\* NextId with the counter incremented twice: a mutant.
NextIdSkips(counter) == counter + 2

\* The counter after self.TE_counter += 1.
NextId(counter) == counter + 1

\* ListInsertTe with the colliding TE disabled after the splice: a mutant.
ListInsertTeDisableAfter(self, pos, length) ==
    LET hit == FirstCollision(self.TEs, pos)
        g2 == PySlice(self.genome, 0, pos) \o Repeat("A", length) \o PySliceFrom(self.genome, pos)
        s2 == [self EXCEPT !.genome = g2]
        s3 == IF hit = 0 THEN s2 ELSE ListDisableTe(s2, hit)
        id == NextId(self.TE_counter)
    IN  [self |-> [genome |-> s3.genome,
                   TEs |-> Register(ShiftStarts(s3.TEs, pos, length), pos, length),
                   TE_counter |-> id],
         ret |-> RetInt(id)]

ListInsertTe(self, pos, length) ==
    LET hit == FirstCollision(self.TEs, pos)
        s1 == IF hit = 0 THEN self ELSE ListDisableTe(self, hit)
        g2 == PySlice(s1.genome, 0, pos) \o Repeat("A", length) \o PySliceFrom(s1.genome, pos)
        id == NextId(self.TE_counter)
    IN  [self |-> [genome |-> g2,
                   TEs |-> Register(ShiftStarts(s1.TEs, pos, length), pos, length),
                   TE_counter |-> id],
         ret |-> RetInt(id)]

\* ListCopyTe without the test of the status: a mutant.
ListCopyTeAnyStatus(self, te, offset) ==
    IF ListLen(self) = 0
    THEN [self |-> self, ret |-> RetRaise("ZeroDivisionError")]
    ELSE ListInsertTe(self, (self.TEs[te].start + offset) % ListLen(self),
                      self.TEs[te].length)

\* ListCopyTe that disables its source before inserting (a move, not a copy): a mutant.
ListCopyTeMoves(self, te, offset) ==
    IF self.TEs[te].status = "A"
    THEN IF ListLen(self) = 0
         THEN [self |-> self, ret |-> RetRaise("ZeroDivisionError")]
         ELSE ListInsertTe(ListDisableTe(self, te),
                           (self.TEs[te].start + offset) % ListLen(self),
                           self.TEs[te].length)
    ELSE [self |-> self, ret |-> RetNone]

\* ListCopyTe without the modulo (the target is start + offset): a mutant.
ListCopyTeNoWrap(self, te, offset) ==
    IF self.TEs[te].status = "A"
    THEN ListInsertTe(self, self.TEs[te].start + offset, self.TEs[te].length)
    ELSE [self |-> self, ret |-> RetNone]

ListCopyTe(self, te, offset) ==
    IF self.TEs[te].status = "A"
    THEN IF ListLen(self) = 0
         THEN [self |-> self, ret |-> RetRaise("ZeroDivisionError")]
         ELSE ListInsertTe(self, (self.TEs[te].start + offset) % ListLen(self),
                           self.TEs[te].length)
    ELSE [self |-> self, ret |-> RetNone]

----------------------------------------------------------------------------
\* Link objects: the heap is three sequences indexed by object (next, prev, val);
\* objects are numbered in order of creation and the dummy head is the first.

head == 1

\* InsertAfter without new_link.next.prev = new_link: a mutant.
InsertAfterNoBackLink(h, link, v) ==
    LET new == Len(h.next) + 1
        h1 == [h EXCEPT !.next = Append(@, h.next[link]),
                        !.prev = Append(@, link),
                        !.val = Append(@, v)]
    IN  [h1 EXCEPT !.next[h1.prev[new]] = new]

\* insert_after(link, val)
InsertAfter(h, link, v) ==
    LET new == Len(h.next) + 1
        h1 == [h EXCEPT !.next = Append(@, h.next[link]),
                        !.prev = Append(@, link),
                        !.val = Append(@, v)]
        h2 == [h1 EXCEPT !.next[h1.prev[new]] = new]
    IN  [h2 EXCEPT !.prev[h2.next[new]] = new]

\* for _ in range(k): insert_after(link, v)
RECURSIVE InsertRun(_, _, _, _)
InsertRun(h, link, v, k) ==
    IF k <= 0 THEN h ELSE InsertRun(InsertAfter(h, link, v), link, v, k - 1)

\* LinkedInit with one cell too few (range(n - 1)): a mutant.
LinkedInitShort(n) ==
    InsertRun([next |-> <<head>>, prev |-> <<head>>, val |-> <<"None">>,
               TEs |-> <<>>, TE_counter |-> 0],
              head, "-", n - 1)

LinkedInit(n) ==
    InsertRun([next |-> <<head>>, prev |-> <<head>>, val |-> <<"None">>,
               TEs |-> <<>>, TE_counter |-> 0],
              head, "-", n)

\* __len__: walk next from head.next until the head comes back.
RECURSIVE LenWalk(_, _, _)
LenWalk(self, current, counter) ==
    IF current = head THEN counter
    ELSE LenWalk(self, self.next[current], counter + 1)

LinkedLen(self) == LenWalk(self, self.next[head], 0)

\* __str__
RECURSIVE StrWalk(_, _, _)
StrWalk(self, link, elms) ==
    IF link = head THEN elms
    ELSE StrWalk(self, self.next[link], Append(elms, self.val[link]))

LinkedStr(self) == StrWalk(self, self.next[head], <<>>)

LinkedActiveTes(self) == ActiveList(self.TEs)

\* for _ in range(k): current.val = 'x'; current = current.next
RECURSIVE MarkRun(_, _, _)
MarkRun(self, current, k) ==
    IF k <= 0 THEN self
    ELSE MarkRun([self EXCEPT !.val[current] = "x"], self.next[current], k - 1)

\* The walk of disable_te: count from 0, mark from the link where count == pos.
RECURSIVE DisableWalk(_, _, _, _, _)
DisableWalk(self, current, count, pos, length) ==
    IF current = head THEN self
    ELSE IF count = pos THEN MarkRun(self, current, length)
    ELSE DisableWalk(self, self.next[current], count + 1, pos, length)

LinkedDisableTe(self, te) ==
    LET s1 == [self EXCEPT !.TEs[te].status = "D"]
    IN  DisableWalk(s1, s1.next[head], 0, s1.TEs[te].start, s1.TEs[te].length)

\* The first value of count in the walk of insert_te.
InsertCountStart == 1

\* The walk of insert_te: insert after the link where count == pos.
RECURSIVE InsertWalk(_, _, _, _, _)
InsertWalk(self, current, count, pos, length) ==
    IF current = head THEN self
    ELSE IF count = pos THEN InsertRun(self, current, "A", length)
    ELSE InsertWalk(self, self.next[current], count + 1, pos, length)

LinkedInsertTe(self, pos, length) ==
    LET hit == FirstCollision(self.TEs, pos)
        s1 == IF hit = 0 THEN self ELSE LinkedDisableTe(self, hit)
        s2 == InsertWalk(s1, s1.next[head], InsertCountStart, pos, length)
        id == NextId(self.TE_counter)
    IN  [self |-> [s2 EXCEPT !.TEs = Register(ShiftStarts(s1.TEs, pos, length), pos, length),
                             !.TE_counter = id],
         ret |-> RetInt(id)]

LinkedCopyTe(self, te, offset) ==
    IF self.TEs[te].status = "A"
    THEN IF LinkedLen(self) = 0
         THEN [self |-> self, ret |-> RetRaise("ZeroDivisionError")]
         ELSE LinkedInsertTe(self, (self.TEs[te].start + offset) % LinkedLen(self),
                             self.TEs[te].length)
    ELSE [self |-> self, ret |-> RetNone]

----------------------------------------------------------------------------
\* The driver.

Impls == {"ListGenome", "LinkedListGenome", "both"}

ListDriven == impl \in {"ListGenome", "both"}
LinkedDriven == impl \in {"LinkedListGenome", "both"}

NoRet == [kind |-> "none", val |-> 0]

NoCall == [op |-> "init", pos |-> 0, length |-> 0, te |-> 0, offset |-> 0,
           lret |-> NoRet, kret |-> NoRet]

Init ==
    /\ impl \in Impls
    /\ \E n \in 0..MaxN :
          /\ size = n
          /\ lst = ListInit(n)
          /\ lnk = LinkedInit(n)
          /\ pre = [lst |-> ListInit(n), lnk |-> LinkedInit(n)]
    /\ last = NoCall
    /\ returned = [lst |-> <<>>, lnk |-> <<>>]
    /\ calls = 0

\* What a call leaves behind: the new objects, the call record and the history.
Step(l, k, call) ==
    /\ calls < MaxCalls
    /\ calls' = calls + 1
    /\ pre' = [lst |-> lst, lnk |-> lnk]
    /\ lst' = IF ListDriven THEN l.self ELSE lst
    /\ lnk' = IF LinkedDriven THEN k.self ELSE lnk
    /\ last' = [call EXCEPT !.lret = IF ListDriven THEN l.ret ELSE NoRet,
                            !.kret = IF LinkedDriven THEN k.ret ELSE NoRet]
    /\ returned' =
          [lst |-> IF ListDriven /\ l.ret.kind = "int"
                   THEN Append(returned.lst, l.ret.val) ELSE returned.lst,
           lnk |-> IF LinkedDriven /\ k.ret.kind = "int"
                   THEN Append(returned.lnk, k.ret.val) ELSE returned.lnk]
    /\ UNCHANGED <<impl, size>>

\* insert_te(pos, length) with 0 <= pos <= len() and length >= 1
InsertTe ==
    \E pos \in 0..(MaxN + MaxCalls * MaxTELen), length \in 1..MaxTELen :
        /\ ListDriven => pos <= ListLen(lst)
        /\ LinkedDriven => pos <= LinkedLen(lnk)
        /\ Step(ListInsertTe(lst, pos, length), LinkedInsertTe(lnk, pos, length),
                [NoCall EXCEPT !.op = "insert_te", !.pos = pos, !.length = length])

\* copy_te(te, offset) on a registered id
CopyTe ==
    \E te \in 1..MaxCalls, offset \in (-MaxOffset)..MaxOffset :
        /\ ListDriven => te \in DOMAIN lst.TEs
        /\ LinkedDriven => te \in DOMAIN lnk.TEs
        /\ Step(IF ListDriven THEN ListCopyTe(lst, te, offset) ELSE [self |-> lst, ret |-> NoRet],
                IF LinkedDriven THEN LinkedCopyTe(lnk, te, offset) ELSE [self |-> lnk, ret |-> NoRet],
                [NoCall EXCEPT !.op = "copy_te", !.te = te, !.offset = offset])

\* disable_te(te) on a registered id
DisableTe ==
    \E te \in 1..MaxCalls :
        /\ ListDriven => te \in DOMAIN lst.TEs
        /\ LinkedDriven => te \in DOMAIN lnk.TEs
        /\ Step([self |-> IF ListDriven THEN ListDisableTe(lst, te) ELSE lst, ret |-> RetNone],
                [self |-> IF LinkedDriven THEN LinkedDisableTe(lnk, te) ELSE lnk, ret |-> RetNone],
                [NoCall EXCEPT !.op = "disable_te", !.te = te])

Next == InsertTe \/ CopyTe \/ DisableTe

Spec == Init /\ [][Next]_vars

----------------------------------------------------------------------------
\* Calls outside the contract: a position out of range, an id never returned.

\* self.TEs[te] on a dict without the key te raises KeyError before anything is written.
ListCopyTeCall(self, te, offset) ==
    IF te \in DOMAIN self.TEs THEN ListCopyTe(self, te, offset)
    ELSE [self |-> self, ret |-> RetRaise("KeyError")]

LinkedCopyTeCall(self, te, offset) ==
    IF te \in DOMAIN self.TEs THEN LinkedCopyTe(self, te, offset)
    ELSE [self |-> self, ret |-> RetRaise("KeyError")]

ListDisableTeCall(self, te) ==
    IF te \in DOMAIN self.TEs THEN [self |-> ListDisableTe(self, te), ret |-> RetNone]
    ELSE [self |-> self, ret |-> RetRaise("KeyError")]

LinkedDisableTeCall(self, te) ==
    IF te \in DOMAIN self.TEs THEN [self |-> LinkedDisableTe(self, te), ret |-> RetNone]
    ELSE [self |-> self, ret |-> RetRaise("KeyError")]

OutOfRange(pos, len) == pos < 0 \/ pos > len

\* insert_te(pos, length) with pos < 0 or pos > len()
InsertTeOutOfRange ==
    \E pos \in (-MaxBeyond)..(MaxN + MaxCalls * MaxTELen + MaxBeyond), length \in 1..MaxTELen :
        /\ ListDriven => (OutOfRange(pos, ListLen(lst)) /\ pos <= ListLen(lst) + MaxBeyond)
        /\ LinkedDriven => (OutOfRange(pos, LinkedLen(lnk)) /\ pos <= LinkedLen(lnk) + MaxBeyond)
        /\ Step(ListInsertTe(lst, pos, length), LinkedInsertTe(lnk, pos, length),
                [NoCall EXCEPT !.op = "insert_te", !.pos = pos, !.length = length])

\* copy_te(te, offset) with a te that is no key of self.TEs
CopyTeUnknown ==
    \E te \in 0..(MaxCalls + 1), offset \in (-MaxOffset)..MaxOffset :
        /\ ListDriven => te \notin DOMAIN lst.TEs
        /\ LinkedDriven => te \notin DOMAIN lnk.TEs
        /\ Step(ListCopyTeCall(lst, te, offset), LinkedCopyTeCall(lnk, te, offset),
                [NoCall EXCEPT !.op = "copy_te", !.te = te, !.offset = offset])

\* disable_te(te) with a te that is no key of self.TEs
DisableTeUnknown ==
    \E te \in 0..(MaxCalls + 1) :
        /\ ListDriven => te \notin DOMAIN lst.TEs
        /\ LinkedDriven => te \notin DOMAIN lnk.TEs
        /\ Step(ListDisableTeCall(lst, te), LinkedDisableTeCall(lnk, te),
                [NoCall EXCEPT !.op = "disable_te", !.te = te])

NextErr == Next \/ InsertTeOutOfRange \/ CopyTeUnknown \/ DisableTeUnknown

SpecErr == Init /\ [][NextErr]_vars

----------------------------------------------------------------------------
\* Vocabulary of the properties: the last call seen from its two ends.

IsCall(op) == last.op = op

\* The ids registered before the last call.
PreIds(preTEs) == 1..Len(preTEs)

\* The TEs the last call turned from Active to Disabled.
DisabledByCall(preTEs, postTEs) ==
    {te \in PreIds(preTEs) : preTEs[te].status = "A" /\ postTEs[te].status = "D"}

\* The Active TEs whose open interval (start, start+length) holds pos.
StrictlyInside(preTEs, pos) ==
    {te \in PreIds(preTEs) :
        /\ preTEs[te].status = "A"
        /\ preTEs[te].start < pos
        /\ pos < preTEs[te].start + preTEs[te].length}

\* Cell i (0-based) of a rendered genome.
Cell(str, i) == str[i + 1]

\* All cells of [start, start+length) exist in str and hold marker c.
IntervalIs(str, start, length, c) ==
    \A i \in start..(start + length - 1) : i < Len(str) /\ Cell(str, i) = c

----------------------------------------------------------------------------
\* C1: applied to a ListGenome(n) and a LinkedListGenome(n) alike, every call
\* leaves str() of the two genomes identical and active_tes() identical.
C1_SameObservableBehaviour ==
    impl = "both" =>
        /\ ListStr(lst) = LinkedStr(lnk)
        /\ ListActiveTes(lst) = LinkedActiveTes(lnk)

\* C2: insert_te(pos, length) with 0 <= pos <= len() and length >= 1 increases
\* len() by exactly length, in both implementations.
C2_InsertGrowsByLength ==
    IsCall("insert_te") =>
        /\ ListDriven => ListLen(lst) = ListLen(pre.lst) + last.length
        /\ LinkedDriven => LinkedLen(lnk) = LinkedLen(pre.lnk) + last.length

\* C3: insert_te(pos, length) turns a TE from Active to Disabled exactly when
\* the TE was Active and start < pos < start+length; an Active TE with
\* pos = start or pos = start+length stays Active.
C3Holds(preTEs, postTEs, pos) ==
    /\ DisabledByCall(preTEs, postTEs) = StrictlyInside(preTEs, pos)
    /\ \A te \in PreIds(preTEs) :
          (/\ preTEs[te].status = "A"
           /\ (pos = preTEs[te].start \/ pos = preTEs[te].start + preTEs[te].length))
          => postTEs[te].status = "A"

C3_DisableExactlyStrictlyInside ==
    IsCall("insert_te") =>
        /\ ListDriven => C3Holds(pre.lst.TEs, lst.TEs, last.pos)
        /\ LinkedDriven => C3Holds(pre.lnk.TEs, lnk.TEs, last.pos)

\* An insert_te that disabled a TE it hit strictly inside, in both implementations.
C3_Witness ==
    /\ impl = "both"
    /\ IsCall("insert_te")
    /\ DisabledByCall(pre.lst.TEs, lst.TEs) # {}
    /\ DisabledByCall(pre.lnk.TEs, lnk.TEs) # {}

\* C4: after insert_te(pos, length) every earlier record with start >= pos has
\* its start increased by length, every record with start < pos keeps its start
\* (the TE disabled by the call too), and no earlier record's length changes.
C4Holds(preTEs, postTEs, pos, length) ==
    \A te \in PreIds(preTEs) :
        /\ postTEs[te].length = preTEs[te].length
        /\ preTEs[te].start >= pos => postTEs[te].start = preTEs[te].start + length
        /\ preTEs[te].start < pos => postTEs[te].start = preTEs[te].start

C4_ShiftRightFromPos ==
    IsCall("insert_te") =>
        /\ ListDriven => C4Holds(pre.lst.TEs, lst.TEs, last.pos, last.length)
        /\ LinkedDriven => C4Holds(pre.lnk.TEs, lnk.TEs, last.pos, last.length)

\* An insert_te that disabled a TE starting before pos and shifted another one.
C4WitnessIn(preTEs, postTEs, pos) ==
    /\ \E te \in DisabledByCall(preTEs, postTEs) : preTEs[te].start < pos
    /\ \E te \in PreIds(preTEs) : preTEs[te].start >= pos

C4_Witness ==
    /\ impl = "both"
    /\ IsCall("insert_te")
    /\ C4WitnessIn(pre.lst.TEs, lst.TEs, last.pos)
    /\ C4WitnessIn(pre.lnk.TEs, lnk.TEs, last.pos)

\* C5: copy_te(te, offset) on an Active te with start s and length L has the
\* effect and the return value of insert_te((s + offset) mod len(), L), len()
\* taken before the call; the target is in [0, len()) and a new id is returned.
C5_CopyIsInsertAtWrappedTarget ==
    IsCall("copy_te") =>
        /\ (ListDriven /\ pre.lst.TEs[last.te].status = "A") =>
              /\ last.lret.kind = "int"
              /\ last.lret.val = pre.lst.TE_counter + 1
              /\ ListLen(pre.lst) > 0
              /\ LET rec == pre.lst.TEs[last.te]
                     t == (rec.start + last.offset) % ListLen(pre.lst)
                 IN  /\ 0 <= t /\ t < ListLen(pre.lst)
                     /\ lst = ListInsertTe(pre.lst, t, rec.length).self
        /\ (LinkedDriven /\ pre.lnk.TEs[last.te].status = "A") =>
              /\ last.kret.kind = "int"
              /\ last.kret.val = pre.lnk.TE_counter + 1
              /\ LinkedLen(pre.lnk) > 0
              /\ LET rec == pre.lnk.TEs[last.te]
                     t == (rec.start + last.offset) % LinkedLen(pre.lnk)
                 IN  /\ 0 <= t /\ t < LinkedLen(pre.lnk)
                     /\ lnk = LinkedInsertTe(pre.lnk, t, rec.length).self

\* C6: disable_te(te) on an Active te sets every cell of [start, start+length)
\* to 'x' and removes te from active_tes(); every other cell, len(), every
\* record's start and length and every other TE's status stay as they were.
C6Holds(preStr, postStr, preTEs, postTEs, te) ==
    preTEs[te].status = "A" =>
        /\ IntervalIs(postStr, preTEs[te].start, preTEs[te].length, "x")
        /\ Len(postStr) = Len(preStr)
        /\ \A i \in 0..(Len(preStr) - 1) :
              (i < preTEs[te].start \/ i >= preTEs[te].start + preTEs[te].length)
              => Cell(postStr, i) = Cell(preStr, i)
        /\ postTEs[te].status = "D"
        /\ Len(postTEs) = Len(preTEs)
        /\ \A o \in PreIds(preTEs) :
              /\ postTEs[o].start = preTEs[o].start
              /\ postTEs[o].length = preTEs[o].length
              /\ o # te => postTEs[o].status = preTEs[o].status

C6_DisableMarksOnlyItsInterval ==
    IsCall("disable_te") =>
        /\ ListDriven =>
              C6Holds(ListStr(pre.lst), ListStr(lst), pre.lst.TEs, lst.TEs, last.te)
        /\ LinkedDriven =>
              C6Holds(LinkedStr(pre.lnk), LinkedStr(lnk), pre.lnk.TEs, lnk.TEs, last.te)

\* C7: disable_te(te) on a te that is already Disabled is a no-op: str(),
\* len(), active_tes() and all TE records are as before the call.
C7_DisableIsIdempotent ==
    IsCall("disable_te") =>
        /\ (ListDriven /\ pre.lst.TEs[last.te].status = "D") =>
              /\ ListStr(lst) = ListStr(pre.lst)
              /\ ListLen(lst) = ListLen(pre.lst)
              /\ ListActiveTes(lst) = ListActiveTes(pre.lst)
              /\ lst.TEs = pre.lst.TEs
        /\ (LinkedDriven /\ pre.lnk.TEs[last.te].status = "D") =>
              /\ LinkedStr(lnk) = LinkedStr(pre.lnk)
              /\ LinkedLen(lnk) = LinkedLen(pre.lnk)
              /\ LinkedActiveTes(lnk) = LinkedActiveTes(pre.lnk)
              /\ lnk.TEs = pre.lnk.TEs

\* C8: copy_te(te, offset) on a registered te that is Disabled returns None
\* and leaves len(), str(), active_tes(), every TE record and the id counter
\* unchanged, for every offset.
C8_CopyOfDisabledIsNone ==
    IsCall("copy_te") =>
        /\ (ListDriven /\ pre.lst.TEs[last.te].status = "D") =>
              /\ last.lret = RetNone
              /\ ListLen(lst) = ListLen(pre.lst)
              /\ ListStr(lst) = ListStr(pre.lst)
              /\ ListActiveTes(lst) = ListActiveTes(pre.lst)
              /\ lst.TEs = pre.lst.TEs
              /\ lst.TE_counter = pre.lst.TE_counter
        /\ (LinkedDriven /\ pre.lnk.TEs[last.te].status = "D") =>
              /\ last.kret = RetNone
              /\ LinkedLen(lnk) = LinkedLen(pre.lnk)
              /\ LinkedStr(lnk) = LinkedStr(pre.lnk)
              /\ LinkedActiveTes(lnk) = LinkedActiveTes(pre.lnk)
              /\ lnk.TEs = pre.lnk.TEs
              /\ lnk.TE_counter = pre.lnk.TE_counter

\* A copy_te of a Disabled te, made on both implementations.
C8_Witness ==
    /\ impl = "both"
    /\ IsCall("copy_te")
    /\ pre.lst.TEs[last.te].status = "D"
    /\ pre.lnk.TEs[last.te].status = "D"
    /\ last.offset # 0

\* C9: the k-th call that registers a TE returns id k: the ids returned are
\* 1, 2, 3, ... in call order, and calls that return None (or nothing) do not
\* consume an id.
Ids(k) == [i \in 1..k |-> i]

C9_IdsAreSequential ==
    /\ returned.lst = Ids(Len(returned.lst))
    /\ returned.lnk = Ids(Len(returned.lnk))
    /\ lst.TE_counter = Len(returned.lst)
    /\ lnk.TE_counter = Len(returned.lnk)
    /\ IsCall("disable_te") =>
          (lst.TE_counter = pre.lst.TE_counter /\ lnk.TE_counter = pre.lnk.TE_counter)
    /\ (IsCall("copy_te") /\ last.lret = RetNone) => lst.TE_counter = pre.lst.TE_counter
    /\ (IsCall("copy_te") /\ last.kret = RetNone) => lnk.TE_counter = pre.lnk.TE_counter

\* Two registering calls returned 1 and 2, then a copy_te returned None.
C9_Witness ==
    /\ impl = "both"
    /\ calls = 3
    /\ IsCall("copy_te")
    /\ last.lret = RetNone
    /\ last.kret = RetNone
    /\ returned.lst = <<1, 2>>
    /\ returned.lnk = <<1, 2>>

\* C10: in every reachable state, for every Active TE all cells of str() at
\* [start, start+length) of its record are 'A'.
ActiveCellsAreA(str, TEs) ==
    \A te \in 1..Len(TEs) :
        TEs[te].status = "A" => IntervalIs(str, TEs[te].start, TEs[te].length, "A")

C10_ListActiveCellsAreA == ActiveCellsAreA(ListStr(lst), lst.TEs)

C10_LinkedActiveCellsAreA == ActiveCellsAreA(LinkedStr(lnk), lnk.TEs)

C10_ActiveCellsAreA == C10_ListActiveCellsAreA /\ C10_LinkedActiveCellsAreA

\* C11: insert_te(pos, length) with pos < 0 or pos > len() ends in a reported
\* failure and leaves the sequence, the TE registry and the id counter unchanged.
C11_OutOfRangeIsReported ==
    IsCall("insert_te") =>
        /\ (ListDriven /\ OutOfRange(last.pos, ListLen(pre.lst))) =>
              /\ last.lret.kind \notin {"int", "None"}
              /\ lst = pre.lst
        /\ (LinkedDriven /\ OutOfRange(last.pos, LinkedLen(pre.lnk))) =>
              /\ last.kret.kind \notin {"int", "None"}
              /\ lnk = pre.lnk

\* C12: for a te that is not in the registry, copy_te(te, offset) returns None
\* and disable_te(te) does nothing; neither ends in an error and the sequence,
\* the registry and the id counter are unchanged.
C12_UnknownIdIsNotAnError ==
    (IsCall("copy_te") \/ IsCall("disable_te")) =>
        /\ (ListDriven /\ last.te \notin DOMAIN pre.lst.TEs) =>
              /\ last.lret = RetNone
              /\ lst = pre.lst
        /\ (LinkedDriven /\ last.te \notin DOMAIN pre.lnk.TEs) =>
              /\ last.kret = RetNone
              /\ lnk = pre.lnk

\* C13: a single insert_te call, and a single copy_te call, changes at most
\* one TE from Active to Disabled.
C13_AtMostOneDisablePerCall ==
    (IsCall("insert_te") \/ IsCall("copy_te")) =>
        /\ Cardinality(DisabledByCall(pre.lst.TEs, lst.TEs)) <= 1
        /\ Cardinality(DisabledByCall(pre.lnk.TEs, lnk.TEs)) <= 1

\* A copy_te that disabled one TE while another Active TE stayed Active.
C13WitnessIn(preTEs, postTEs) ==
    /\ Cardinality(DisabledByCall(preTEs, postTEs)) = 1
    /\ \E te \in PreIds(preTEs) : preTEs[te].status = "A" /\ postTEs[te].status = "A"

C13_Witness ==
    /\ impl = "both"
    /\ IsCall("copy_te")
    /\ C13WitnessIn(pre.lst.TEs, lst.TEs)
    /\ C13WitnessIn(pre.lnk.TEs, lnk.TEs)

\* C14: a freshly constructed genome of size n has len() = n, str() equal to
\* n copies of '-' and active_tes() empty, in both implementations.
AllEmptyCells(str, n) == Len(str) = n /\ \A i \in 1..n : str[i] = "-"

C14_FreshGenome ==
    calls = 0 =>
        /\ ListLen(lst) = size
        /\ AllEmptyCells(ListStr(lst), size)
        /\ ListActiveTes(lst) = <<>>
        /\ LinkedLen(lnk) = size
        /\ AllEmptyCells(LinkedStr(lnk), size)
        /\ LinkedActiveTes(lnk) = <<>>

\* A fresh genome with at least one cell.
C14_Witness ==
    /\ calls = 0
    /\ size >= 1
    /\ ListLen(lst) >= 1
    /\ LinkedLen(lnk) >= 1

\* C15: in ListGenome, for 0 <= pos <= len(), str() after insert_te(pos, length)
\* is s[0:pos] + 'A'*length + s[pos:], where s is str() before the call with the
\* cells of the TE disabled by this call set to 'x'.
C15Holds(preStr, postStr, preTEs, postTEs, pos, length) ==
    LET dis == DisabledByCall(preTEs, postTEs)
        s(i) == IF \E te \in dis :
                      preTEs[te].start <= i /\ i < preTEs[te].start + preTEs[te].length
                THEN "x" ELSE Cell(preStr, i)
    IN  /\ Len(postStr) = Len(preStr) + length
        /\ \A i \in 0..(Len(postStr) - 1) :
              Cell(postStr, i) = IF i < pos THEN s(i)
                                 ELSE IF i < pos + length THEN "A"
                                 ELSE s(i - length)

C15_ListInsertSplices ==
    (IsCall("insert_te") /\ ListDriven) =>
        C15Holds(ListStr(pre.lst), ListStr(lst), pre.lst.TEs, lst.TEs, last.pos, last.length)

\* An insert_te on a ListGenome that hit an Active TE strictly inside and left
\* 'x' cells on both sides of the new run.
C15_Witness ==
    /\ IsCall("insert_te")
    /\ ListDriven
    /\ DisabledByCall(pre.lst.TEs, lst.TEs) # {}
    /\ last.pos >= 1
    /\ Cell(ListStr(lst), last.pos - 1) = "x"
    /\ Cell(ListStr(lst), last.pos) = "A"
    /\ Cell(ListStr(lst), last.pos + last.length) = "x"

\* C16: copy_te(te, offset) on an Active te whose target
\* t = (start + offset) mod len() lies strictly inside the te (start < t <
\* start+length) disables the te itself and returns a new id that is Active; with
\* t <= start or t >= start+length the te is still Active after the call.
C16Holds(preTEs, postTEs, len, te, offset, ret) ==
    (preTEs[te].status = "A" /\ len > 0) =>
        LET start == preTEs[te].start
            length == preTEs[te].length
            t == (start + offset) % len
        IN  /\ (start < t /\ t < start + length) =>
                  /\ postTEs[te].status = "D"
                  /\ ret.kind = "int"
                  /\ ret.val \notin DOMAIN preTEs
                  /\ ret.val \in DOMAIN postTEs
                  /\ postTEs[ret.val].status = "A"
            /\ (t <= start \/ t >= start + length) => postTEs[te].status = "A"

C16_CopyIntoItselfDisablesSource ==
    IsCall("copy_te") =>
        /\ ListDriven => C16Holds(pre.lst.TEs, lst.TEs, ListLen(pre.lst),
                                  last.te, last.offset, last.lret)
        /\ LinkedDriven => C16Holds(pre.lnk.TEs, lnk.TEs, LinkedLen(pre.lnk),
                                    last.te, last.offset, last.kret)

\* A copy_te whose target fell strictly inside its source, on both implementations.
C16_Witness ==
    /\ impl = "both"
    /\ IsCall("copy_te")
    /\ last.te \in DisabledByCall(pre.lst.TEs, lst.TEs)
    /\ last.te \in DisabledByCall(pre.lnk.TEs, lnk.TEs)
    /\ last.lret.kind = "int"
    /\ last.kret.kind = "int"

\* C17: whenever the cell at index pos belongs to an Active TE before the call
\* (start <= pos < start+length), insert_te(pos, length) disables that TE and
\* removes it from active_tes().
C17Holds(preTEs, postTEs, pos) ==
    \A te \in PreIds(preTEs) :
        (/\ preTEs[te].status = "A"
         /\ preTEs[te].start <= pos
         /\ pos < preTEs[te].start + preTEs[te].length)
        => (/\ postTEs[te].status = "D"
            /\ \A i \in 1..Len(ActiveList(postTEs)) : ActiveList(postTEs)[i] # te)

C17_InsertOnTECellDisables ==
    IsCall("insert_te") =>
        /\ ListDriven => C17Holds(pre.lst.TEs, lst.TEs, last.pos)
        /\ LinkedDriven => C17Holds(pre.lnk.TEs, lnk.TEs, last.pos)

\* C18: the chain of a LinkedListGenome is one well-formed circle through the
\* sentinel: for every link x, x.next.prev is x and x.prev.next is x, and
\* following next from the sentinel comes back to it after exactly len() + 1
\* steps (and not before), passing every link.
RECURSIVE NthNext(_, _, _)
NthNext(h, x, k) == IF k = 0 THEN x ELSE NthNext(h, h.next[x], k - 1)

Links(h) == DOMAIN h.next

WellFormedCircle(h) ==
    /\ DOMAIN h.prev = Links(h)
    /\ DOMAIN h.val = Links(h)
    /\ \A x \in Links(h) :
          /\ h.next[x] \in Links(h)
          /\ h.prev[x] \in Links(h)
          /\ h.prev[h.next[x]] = x
          /\ h.next[h.prev[x]] = x
    /\ NthNext(h, head, LinkedLen(h) + 1) = head
    /\ \A k \in 1..LinkedLen(h) : NthNext(h, head, k) # head
    /\ Links(h) = {NthNext(h, head, k) : k \in 0..LinkedLen(h)}
    /\ Len(LinkedStr(h)) = LinkedLen(h)

C18_ChainIsOneCircle == WellFormedCircle(lnk)

\* An insert_te that spliced two links into the middle of the chain.
C18_Witness ==
    /\ LinkedDriven
    /\ IsCall("insert_te")
    /\ last.pos >= 1
    /\ last.pos < LinkedLen(pre.lnk)
    /\ LinkedLen(lnk) = LinkedLen(pre.lnk) + 2

\* C19: the recorded intervals [start, start+length) of any two distinct Active
\* TEs are disjoint, so no position lies strictly inside more than one Active TE
\* (the TE an insertion disables does not depend on the order of the scan).
ActiveIds(TEs) == {te \in 1..Len(TEs) : TEs[te].status = "A"}

Disjoint(a, b) == a.start + a.length <= b.start \/ b.start + b.length <= a.start

ActiveDisjoint(TEs) ==
    /\ \A a, b \in ActiveIds(TEs) : a # b => Disjoint(TEs[a], TEs[b])
    /\ \A pos \in 0..(MaxN + MaxCalls * MaxTELen) :
          Cardinality(StrictlyInside(TEs, pos)) <= 1

C19_ActiveIntervalsDisjoint == ActiveDisjoint(lst.TEs) /\ ActiveDisjoint(lnk.TEs)

\* Two Active TEs side by side, the second inserted where the first one started.
C19WitnessIn(TEs) ==
    \E a, b \in ActiveIds(TEs) :
        /\ a < b
        /\ TEs[b].start + TEs[b].length = TEs[a].start
        /\ TEs[a].length >= 2

C19_Witness ==
    /\ impl = "both"
    /\ IsCall("insert_te")
    /\ C19WitnessIn(lst.TEs)
    /\ C19WitnessIn(lnk.TEs)

\* C20: a TE's status only ever moves from Active to Disabled: an id that is
\* registered and absent from active_tes() is absent from it after every later
\* call, and no registered TE ever leaves the registry.
InActive(te, active) == \E i \in 1..Len(active) : active[i] = te

StaysDisabled(TEs, nextTEs) ==
    \A te \in DOMAIN TEs :
        /\ te \in DOMAIN nextTEs
        /\ TEs[te].status = "D" => nextTEs[te].status = "D"
        /\ ~InActive(te, ActiveList(TEs)) => ~InActive(te, ActiveList(nextTEs))

C20_StatusOnlyActiveToDisabled ==
    [][StaysDisabled(lst.TEs, lst.TEs') /\ StaysDisabled(lnk.TEs, lnk.TEs')]_vars

\* A disable_te on a TE that was Disabled already: it is registered and
\* Disabled afterwards, on both implementations.
C20_Witness ==
    /\ impl = "both"
    /\ IsCall("disable_te")
    /\ pre.lst.TEs[last.te].status = "D"
    /\ pre.lnk.TEs[last.te].status = "D"
    /\ lst.TEs[last.te].status = "D"
    /\ lnk.TEs[last.te].status = "D"
    /\ ~InActive(last.te, ListActiveTes(lst))
    /\ ~InActive(last.te, LinkedActiveTes(lnk))

====
